---- MODULE Spec2Model ----
(***************************************************************************)
(* A model of the extractive PDF summarizer, src/src/nltk_summarizer.py    *)
(* (class PDFSummarizer).  Python strings are TLA+ strings, Python lists   *)
(* are sequences, the instance attributes are the variables.  The NLTK,    *)
(* transformers, enchant and wordninja calls are collaborators: each is    *)
(* modelled by a small deterministic function or by a choice of the        *)
(* environment, stated where it is defined.                                *)
(***************************************************************************)
EXTENDS Integers, Sequences, FiniteSets, TLC

VARIABLES
    text,               \* self.text, after _sanitize
    CHUNK_SIZE,         \* self.CHUNK_SIZE (class attribute until summarize() assigns it)
    NUM_SENTENCES,      \* self.NUM_SENTENCES
    chunks,             \* self.chunks
    sentences,          \* self.sentences
    words,              \* self.words
    filtered_sentences, \* self.filtered_sentences
    filtered_words,     \* self.filtered_words
    frequency_table,    \* frequency_table of summarize(): the counts of a FreqDist
    scores,             \* the OrderedDict scores of summarize(): a sequence of [key, score]
    raw_summary_chunks, \* raw_summary_chunks of summarize()
    summary,            \* self.summary
    tokens,             \* process_concurrently: its argument tokens
    num_threads,        \* process_concurrently: its argument num_threads
    operation,          \* process_concurrently: its argument operation (by name)
    futures,            \* the futures of the running executor, in submission order
    completed,          \* the indices of the futures in the order they completed
    ret,                \* the value the last call returned
    stage,              \* which process_concurrently call of summarize() is running
    abstract,           \* how the abstractive model answers (the collaborator)
    is_word,            \* the dictionary oracle eng_dict.check
    segment,            \* the segmentation oracle wordninja.split
    pc,                 \* where the running call is
    raised,             \* the exception that left the call, "" when none
    calls,              \* how many summarize() calls have started
    first_call,         \* what the first summarize() call derived (history)
    passes              \* self.summary before each _correct_summary (history)

vars == << text, CHUNK_SIZE, NUM_SENTENCES, chunks, sentences, words,
           filtered_sentences, filtered_words, frequency_table, scores,
           raw_summary_chunks, summary, tokens, num_threads, operation, futures, completed, ret,
           stage, abstract, is_word, segment, pc, raised, calls, first_call,
           passes >>

(***************************************************************************)
(* Bounds of the model.                                                    *)
(***************************************************************************)
MaxTextLen == 4
MaxChunkSize == 3
MaxTokens == 3
MaxWorkers == 2
MaxSliceWidth == 2
MaxWords == 3
MaxSentences == 4
MaxNumSentences == 2
\* The chunk sizes of the program, 4096 (the class attribute) and 1024 (the
\* condensing pass), scaled down to sizes the bounded inputs exceed.
ScaledInitialChunkSize == 3
ScaledCondenseChunkSize == 2
MaxSegments == 2
MaxTextSentences == 3
MaxCalls == 2
MaxPoolWorkers == 2

(***************************************************************************)
(* Python list and string primitives.                                      *)
(***************************************************************************)
Min(a, b) == IF a <= b THEN a ELSE b

\* s[i:j] for 0 <= i: the elements at 0-based positions i .. j-1 that exist.
Slice(s, i, j) == SubSeq(s, i + 1, Min(j, Len(s)))

\* list(range(0, stop, step)) for stop >= 0 and step # 0; a negative step
\* counts down from 0 and yields nothing.
RangeFromZero(stop, step) ==
    IF step > 0
    THEN [k \in 1..((stop + step - 1) \div step) |-> (k - 1) * step]
    ELSE << >>

\* "".join(parts)
RECURSIVE Join(_)
Join(parts) ==
    IF parts = << >> THEN "" ELSE Head(parts) \o Join(Tail(parts))

\* [x for part in parts for x in part]
RECURSIVE Flatten(_)
Flatten(parts) ==
    IF parts = << >> THEN << >> ELSE Head(parts) \o Flatten(Tail(parts))

\* All strings over alphabet of length at most n.
RECURSIVE StringsUpTo(_, _)
StringsUpTo(alphabet, n) ==
    IF n = 0 THEN {""}
    ELSE LET shorter == StringsUpTo(alphabet, n - 1)
         IN  shorter \cup {s \o c : s \in shorter, c \in alphabet}

(***************************************************************************)
(* split_text                                                              *)
(***************************************************************************)
\* A slice one character too wide: consecutive chunks overlap.
split_text_overlapping(t, chunk_size) ==
    LET starts == RangeFromZero(Len(t), chunk_size)
    IN  [k \in 1..Len(starts) |-> Slice(t, starts[k], starts[k] + chunk_size + 1)]

\* [text[i:i + chunk_size] for i in range(0, len(text), chunk_size)],
\* for chunk_size # 0 (range() raises ValueError for a step of 0).
split_text(t, chunk_size) ==
    LET starts == RangeFromZero(Len(t), chunk_size)
    IN  [k \in 1..Len(starts) |-> Slice(t, starts[k], starts[k] + chunk_size)]

(***************************************************************************)
(* Values of the variables a specification does not use.                   *)
(***************************************************************************)
NoDerivedState ==
    /\ sentences = << >> /\ words = << >>
    /\ filtered_sentences = << >> /\ filtered_words = << >>
    /\ frequency_table = << >>
    /\ scores = << >> /\ raw_summary_chunks = << >>

NoExecutor ==
    /\ tokens = << >> /\ num_threads = 0 /\ operation = ""
    /\ futures = << >> /\ completed = << >> /\ ret = << >> /\ stage = ""

NoOracle == is_word = << >> /\ segment = << >> /\ abstract = ""

NoHistory == calls = 0 /\ first_call = << >> /\ passes = << >>

derivedVars == << sentences, words, filtered_sentences, filtered_words,
                  frequency_table, scores, raw_summary_chunks >>
executorVars == << tokens, num_threads, operation, futures, completed, ret,
                   stage >>
oracleVars == << is_word, segment, abstract >>
historyVars == << calls, first_call, passes >>

(***************************************************************************)
(* SpecSplit: the chunker on every text and every chunk size, as           *)
(* PDFSummarizer.__init__ (nltk_summarizer) and PDFSummarizer._split_text  *)
(* (transformers_summarizer) call it.                                      *)
(***************************************************************************)
SplitAlphabet == {"a", "b"}
ChunkSizes == (0 - MaxChunkSize)..MaxChunkSize

InitSplit ==
    /\ text \in StringsUpTo(SplitAlphabet, MaxTextLen)
    /\ CHUNK_SIZE \in ChunkSizes
    /\ NUM_SENTENCES = 0
    /\ chunks = << >>
    /\ summary = ""
    /\ pc = "new"
    /\ raised = ""
    /\ NoDerivedState /\ NoExecutor /\ NoOracle /\ NoHistory

\* nltk_summarizer.PDFSummarizer.__init__, from its call of split_text on:
\* self.chunks = PDFSummarizer.split_text(self.text, self.CHUNK_SIZE).
Construct ==
    /\ pc = "new"
    /\ IF CHUNK_SIZE = 0
       THEN /\ raised' = "ValueError"
            /\ pc' = "raised"
            /\ chunks' = chunks
       ELSE /\ chunks' = split_text(text, CHUNK_SIZE)
            /\ pc' = "constructed"
            /\ raised' = raised
    /\ UNCHANGED << text, CHUNK_SIZE, NUM_SENTENCES, summary >>
    /\ UNCHANGED << derivedVars, executorVars, oracleVars, historyVars >>

\* transformers_summarizer.PDFSummarizer._split_text: the same comprehension
\* over self.text and self.CHUNK_SIZE.
SplitTextInPlace ==
    /\ pc = "new"
    /\ IF CHUNK_SIZE = 0
       THEN /\ raised' = "ValueError"
            /\ pc' = "raised"
            /\ chunks' = chunks
       ELSE /\ chunks' = split_text(text, CHUNK_SIZE)
            /\ pc' = "split"
            /\ raised' = raised
    /\ UNCHANGED << text, CHUNK_SIZE, NUM_SENTENCES, summary >>
    /\ UNCHANGED << derivedVars, executorVars, oracleVars, historyVars >>

NextSplit == Construct \/ SplitTextInPlace

SpecSplit == InitSplit /\ [][NextSplit]_vars

\* C1: for every text and every chunk size > 0 the chunks, concatenated in
\* order, are the text exactly; no chunk is longer than the chunk size and
\* only the last one may be shorter.
C1_ChunksPartitionText ==
    (pc \in {"constructed", "split"} /\ CHUNK_SIZE > 0) =>
        /\ Join(chunks) = text
        /\ \A k \in 1..Len(chunks) :
              /\ Len(chunks[k]) <= CHUNK_SIZE
              /\ Len(chunks[k]) >= 1
              /\ k < Len(chunks) => Len(chunks[k]) = CHUNK_SIZE

\* A text split into several chunks, the last one shorter than the rest.
C1_Witness ==
    /\ pc \in {"constructed", "split"}
    /\ CHUNK_SIZE > 1
    /\ Len(chunks) >= 2
    /\ Len(chunks[Len(chunks)]) < CHUNK_SIZE

\* C6 (as claimed): a split with a chunk size <= 0 never returns a list of
\* chunks; it is rejected.
C6_NonPositiveChunkSizeRejected ==
    pc \in {"constructed", "split"} => CHUNK_SIZE > 0

(***************************************************************************)
(* The tokenizer collaborators (nltk.tokenize) and the filters.            *)
(* sent_tokenize is modelled as: a sentence ends with "."; the blanks      *)
(* between sentences belong to no sentence.  word_tokenize is modelled as: *)
(* words are separated by blanks and "." is a token of its own.            *)
(***************************************************************************)
RECURSIVE RStrip(_)
RStrip(s) ==
    IF s = "" THEN ""
    ELSE IF SubSeq(s, Len(s), Len(s)) = " " THEN RStrip(SubSeq(s, 1, Len(s) - 1))
    ELSE s

Flush(cur) == IF cur = "" THEN << >> ELSE << cur >>

RECURSIVE SentTokens(_, _)
SentTokens(s, cur) ==
    IF s = "" THEN Flush(RStrip(cur))
    ELSE LET c == Head(s)
         IN  IF c = "." THEN << cur \o c >> \o SentTokens(Tail(s), "")
             ELSE IF c = " " /\ cur = "" THEN SentTokens(Tail(s), "")
             ELSE SentTokens(Tail(s), cur \o c)

sent_tokenize(s) == SentTokens(s, "")

RECURSIVE WordTokens(_, _)
WordTokens(s, cur) ==
    IF s = "" THEN Flush(cur)
    ELSE LET c == Head(s)
         IN  IF c = " " THEN Flush(cur) \o WordTokens(Tail(s), "")
             ELSE IF c = "." THEN Flush(cur) \o << c >> \o WordTokens(Tail(s), "")
             ELSE WordTokens(Tail(s), cur \o c)

word_tokenize(s) == WordTokens(s, "")

\* pattern in s, on strings
Contains(s, pattern) ==
    \E i \in 1..(Len(s) - Len(pattern) + 1) :
        SubSeq(s, i, i + Len(pattern) - 1) = pattern

\* self.stop_words: a part of NLTK's English stop-word list.
stop_words == {"the", "is", "a"}

FigureWords == {"Figure", "Fig", "Tab", "Table"}

tokenize_sentences(list) ==
    Flatten([k \in 1..Len(list) |-> sent_tokenize(list[k])])

tokenize_words(list) ==
    Flatten([k \in 1..Len(list) |-> word_tokenize(list[k])])

KeepSentence(token) ==
    Len(token) > 1 /\ ~ \E word \in FigureWords : Contains(token, word)

filter_sentences(list) == SelectSeq(list, KeepSentence)

KeepWord(word) == word \notin stop_words /\ Len(word) > 1

filter_words(list) == SelectSeq(list, KeepWord)

Operations ==
    {"tokenize_sentences", "tokenize_words", "filter_sentences", "filter_words"}

\* operation(chunk), the call a worker makes
Apply(op, list) ==
    CASE op = "tokenize_sentences" -> tokenize_sentences(list)
      [] op = "tokenize_words" -> tokenize_words(list)
      [] op = "filter_sentences" -> filter_sentences(list)
      [] op = "filter_words" -> filter_words(list)

(***************************************************************************)
(* process_concurrently: the submitting thread, the pool's workers and the *)
(* collection of the results.                                              *)
(***************************************************************************)
\* list(islice(tokens, offset, offset + self.CHUNK_SIZE)) of worker i (from 0)
WorkerSlice(list, i, width) == Slice(list, i * width, i * width + width)

\* The future whose result is taken next, taking them as they completed.
NextFutureAsCompleted(futs, order) ==
    LET left == SelectSeq(order, LAMBDA i : futs[i].state = "done")
    IN  IF left = << >> THEN 0 ELSE Head(left)

\* The future whose result the return statement waits for next: the first,
\* in submission order, that it has not taken yet (0 when none is left).
NextFuture(futs, order) ==
    LET left == {i \in 1..Len(futs) : futs[i].state # "collected"}
    IN  IF left = {} THEN 0 ELSE CHOOSE i \in left : \A j \in left : i <= j

\* executor.submit(operation, chunk), for i in range(num_threads)
Submit ==
    /\ pc = "submit"
    /\ Len(futures) < num_threads
    /\ futures' = Append(futures,
           [arg |-> WorkerSlice(tokens, Len(futures), CHUNK_SIZE),
            state |-> "pending", result |-> << >>])
    /\ pc' = IF Len(futures) + 1 = num_threads THEN "collect" ELSE "submit"
    /\ UNCHANGED << text, CHUNK_SIZE, NUM_SENTENCES, chunks, summary, raised,
                    tokens, num_threads, operation, completed, ret, stage >>
    /\ UNCHANGED << derivedVars, oracleVars, historyVars >>

\* A worker thread of the pool runs operation(chunk) and sets the future.
Run(i) ==
    /\ pc \in {"submit", "collect"}
    /\ i \in 1..Len(futures)
    /\ futures[i].state = "pending"
    /\ futures' = [futures EXCEPT ![i].state = "done",
                                  ![i].result = Apply(operation, futures[i].arg)]
    /\ completed' = Append(completed, i)
    /\ UNCHANGED << text, CHUNK_SIZE, NUM_SENTENCES, chunks, summary, raised,
                    tokens, num_threads, operation, ret, pc, stage >>
    /\ UNCHANGED << derivedVars, oracleVars, historyVars >>

\* [sentence for future in futures for sentence in future.result()]: one
\* future.result(), which blocks until that future is done.
Collect ==
    /\ pc = "collect"
    /\ LET i == NextFuture(futures, completed)
       IN  /\ i # 0
           /\ futures[i].state = "done"
           /\ ret' = ret \o futures[i].result
           /\ futures' = [futures EXCEPT ![i].state = "collected"]
    /\ pc' = IF \A j \in 1..Len(futures) : futures'[j].state = "collected"
             THEN "returned" ELSE "collect"
    /\ UNCHANGED << text, CHUNK_SIZE, NUM_SENTENCES, chunks, summary, raised,
                    tokens, num_threads, operation, completed, stage >>
    /\ UNCHANGED << derivedVars, oracleVars, historyVars >>

TokenPool == {"the fox. Fig one.", "fox", "a"}

RECURSIVE ListsUpTo(_, _)
ListsUpTo(pool, n) ==
    IF n = 0 THEN {<< >>}
    ELSE LET shorter == ListsUpTo(pool, n - 1)
         IN  shorter \cup {Append(l, x) : l \in shorter, x \in pool}

InitPC ==
    /\ tokens \in ListsUpTo(TokenPool, MaxTokens)
    /\ num_threads \in 1..MaxWorkers
    /\ operation \in Operations
    /\ CHUNK_SIZE \in 1..MaxSliceWidth
    /\ futures = << >> /\ completed = << >> /\ ret = << >> /\ stage = ""
    /\ pc = "submit"
    /\ raised = ""
    /\ text = "" /\ chunks = << >> /\ summary = "" /\ NUM_SENTENCES = 0
    /\ NoDerivedState /\ NoOracle /\ NoHistory

NextPC == Submit \/ (\E i \in 1..MaxWorkers : Run(i)) \/ Collect

SpecPC == InitPC /\ [][NextPC]_vars

\* C2: process_concurrently returns operation(slice_0) ++ ... ++
\* operation(slice_{W-1}) with slice_i the elements [i*CHUNK_SIZE,
\* (i+1)*CHUNK_SIZE) of the input, in whatever order the workers ran and
\* completed; so it is what the same call returns on the first
\* W*CHUNK_SIZE elements alone.
C2_ResultInSubmissionOrder ==
    pc = "returned" =>
        /\ ret = Flatten([i \in 1..num_threads |->
                     Apply(operation, SubSeq(tokens, (i - 1) * CHUNK_SIZE + 1,
                                             Min(i * CHUNK_SIZE, Len(tokens))))])
        /\ ret = Flatten([i \in 1..num_threads |->
                     Apply(operation,
                           WorkerSlice(SubSeq(tokens, 1,
                                              Min(num_threads * CHUNK_SIZE, Len(tokens))),
                                       i - 1, CHUNK_SIZE))])

\* A call that returned after its second worker completed before its first,
\* on an input longer than W*CHUNK_SIZE, with a non-empty result.
C2_Witness ==
    /\ pc = "returned"
    /\ Len(completed) >= 2 /\ completed[1] = 2
    /\ Len(tokens) > num_threads * CHUNK_SIZE
    /\ futures[1].result # << >> /\ futures[2].result # << >>
    /\ futures[1].result # futures[2].result

(***************************************************************************)
(* The frequency scorer and the selector of summarize().                   *)
(***************************************************************************)
Range(list) == {list[i] : i \in 1..Len(list)}

RECURSIVE Sum(_)
Sum(list) == IF list = << >> THEN 0 ELSE Head(list) + Sum(Tail(list))

UpperCase == "ABCDEFGHIJKLMNOPQRSTUVWXYZ"
LowerCase == "abcdefghijklmnopqrstuvwxyz"

LowerChar(c) ==
    IF \E i \in 1..Len(UpperCase) : SubSeq(UpperCase, i, i) = c
    THEN LET i == CHOOSE j \in 1..Len(UpperCase) : SubSeq(UpperCase, j, j) = c
         IN  SubSeq(LowerCase, i, i)
    ELSE c

\* str.lower()
RECURSIVE Lower(_)
Lower(s) == IF s = "" THEN "" ELSE LowerChar(Head(s)) \o Lower(Tail(s))

\* A table that counts each distinct word once.
FreqDistOfDistinct(list) == [w \in Range(list) |-> 1]

\* FreqDist(list): the number of occurrences of each distinct word.
FreqDist(list) ==
    [w \in Range(list) |-> Cardinality({i \in 1..Len(list) : list[i] = w})]

\* frequency_table[word], 0 for a word that is not in the table
Count(table, word) == IF word \in DOMAIN table THEN table[word] ELSE 0

\* The score of a sentence is sum(frequency_table.freq(word) ...), and
\* freq(word) is frequency_table[word] / frequency_table.N(): the scores of
\* one call share the denominator N, and SentenceScore is the numerator.
SentenceScore(sentence, table, fwords) ==
    LET sentence_words == word_tokenize(Lower(sentence))
    IN  Sum([i \in 1..Len(sentence_words) |->
               IF sentence_words[i] \in Range(fwords)
               THEN Count(table, sentence_words[i]) ELSE 0])

HasKey(dict, key) == \E i \in 1..Len(dict) : dict[i].key = key

\* scores[key] = score on an OrderedDict: a new key goes last, a key that
\* is there keeps its place.
DictSet(dict, key, score) ==
    IF HasKey(dict, key)
    THEN [i \in 1..Len(dict) |->
            IF dict[i].key = key THEN [key |-> key, score |-> score] ELSE dict[i]]
    ELSE Append(dict, [key |-> key, score |-> score])

\* scores.get
DictGet(dict, key) ==
    (CHOOSE e \in Range(dict) : e.key = key).score

\* the loop "for sentence in self.filtered_sentences: scores[sentence] = ..."
RECURSIVE BuildScores(_, _, _, _)
BuildScores(dict, fsentences, table, fwords) ==
    IF fsentences = << >> THEN dict
    ELSE BuildScores(DictSet(dict, Head(fsentences),
                             SentenceScore(Head(fsentences), table, fwords)),
                     Tail(fsentences), table, fwords)

Keys(dict) == [i \in 1..Len(dict) |-> dict[i].key]

\* One step of a stable descending sort: e goes after every entry whose
\* score is at least its own.
InsertDescending(sorted, e) ==
    LET before == SelectSeq(sorted, LAMBDA x : x.score >= e.score)
        after == SelectSeq(sorted, LAMBDA x : x.score < e.score)
    IN  before \o << e >> \o after

RECURSIVE SortDescending(_, _)
SortDescending(sorted, rest) ==
    IF rest = << >> THEN sorted
    ELSE SortDescending(InsertDescending(sorted, Head(rest)), Tail(rest))

\* Every key that scores at least what the n-th best key scores.
TopSentencesByThreshold(dict, n) ==
    LET sorted == SortDescending(<< >>, dict)
    IN  IF Len(sorted) <= n THEN Keys(sorted)
        ELSE Keys(SelectSeq(sorted, LAMBDA x : x.score >= sorted[n].score))

\* sorted(scores, key=scores.get, reverse=True)[:self.NUM_SENTENCES], for
\* NUM_SENTENCES >= 0; sorted() is stable, with reverse=True too.
TopSentences(dict, n) == Keys(Slice(SortDescending(<< >>, dict), 0, n))

\* The selected keys in the order of the sort, best first.
SelectedByScore(dict, n) == TopSentences(dict, n)

\* [sentence for sentence in scores.keys() if sentence in sorted(...)[:n]]
SelectedSentences(dict, n) ==
    LET top == Range(TopSentences(dict, n))
    IN  SelectSeq(Keys(dict), LAMBDA sentence : sentence \in top)

\* summarize(), lines 119-136: the frequency table, the scores, the
\* assignment to self.CHUNK_SIZE and the chunks of the selected text.  ret
\* holds the list that "".join is given.
ScoreAndSelect ==
    /\ pc = "filtered"
    /\ frequency_table' = FreqDist(filtered_words)
    /\ scores' = BuildScores(<< >>, filtered_sentences, frequency_table',
                             filtered_words)
    /\ CHUNK_SIZE' = ScaledCondenseChunkSize
    /\ ret' = SelectedSentences(scores', NUM_SENTENCES)
    /\ raw_summary_chunks' = split_text(Join(ret'), CHUNK_SIZE')
    /\ pc' = "selected"
    /\ UNCHANGED << text, NUM_SENTENCES, chunks, sentences, words,
                    filtered_sentences, filtered_words, summary, tokens,
                    num_threads, operation, futures, completed, stage,
                    raised >>
    /\ UNCHANGED << oracleVars, historyVars >>

WordPool == {"fox", "dog"}
SentencePool == {"dog.", "fox dog.", "Fox."}

InitSelect ==
    /\ filtered_words \in ListsUpTo(WordPool, MaxWords)
    /\ filtered_sentences \in ListsUpTo(SentencePool, MaxSentences)
    /\ NUM_SENTENCES \in 1..MaxNumSentences
    /\ CHUNK_SIZE = ScaledInitialChunkSize
    /\ pc = "filtered"
    /\ raised = ""
    /\ text = "" /\ chunks = << >> /\ summary = ""
    /\ sentences = << >> /\ words = << >>
    /\ frequency_table = << >> /\ scores = << >> /\ raw_summary_chunks = << >>
    /\ NoExecutor /\ NoOracle /\ NoHistory

NextSelect == ScoreAndSelect

SpecSelect == InitSelect /\ [][NextSelect]_vars

\* The place of the first occurrence of a sentence text among the filtered
\* sentences.
FirstIndex(sentence) ==
    CHOOSE i \in 1..Len(filtered_sentences) :
        /\ filtered_sentences[i] = sentence
        /\ \A j \in 1..(i - 1) : filtered_sentences[j] # sentence

\* C3 (as claimed): the selected sentences are handed on in score-descending
\* order.
C3_SelectedInScoreOrder ==
    pc = "selected" =>
        \A i, j \in 1..Len(ret) :
            i < j => DictGet(scores, ret[i]) >= DictGet(scores, ret[j])

\* C3 (amended): the selected sentences are handed on in the order their
\* texts were first inserted (document order), whatever their scores; a
\* sentence text that is left out scores less than every selected one, or
\* the same and was inserted later; the text that is chunked is their join.
C3_SelectedInInsertionOrder ==
    pc = "selected" =>
        /\ \A i, j \in 1..Len(ret) :
              i < j => FirstIndex(ret[i]) < FirstIndex(ret[j])
        /\ \A s \in Range(ret) : \A u \in Range(filtered_sentences) \ Range(ret) :
              \/ DictGet(scores, s) > DictGet(scores, u)
              \/ /\ DictGet(scores, s) = DictGet(scores, u)
                 /\ FirstIndex(s) < FirstIndex(u)
        /\ Join(raw_summary_chunks) = Join(ret)

\* Two sentences selected, the later one inserted scoring more, and a tie
\* at the cut-off that leaves a sentence out.
C3_Witness ==
    /\ pc = "selected"
    /\ Len(ret) = 2
    /\ DictGet(scores, ret[1]) < DictGet(scores, ret[2])
    /\ \E u \in Range(filtered_sentences) \ Range(ret) :
          DictGet(scores, u) = DictGet(scores, ret[1])

\* C4: the number of selected sentences is min(NUM_SENTENCES, number of
\* distinct filtered sentence texts), ties at the cut-off included, and
\* every selected sentence is one of the filtered sentences.
C4_SelectionSize ==
    pc = "selected" =>
        /\ Len(ret) = Min(NUM_SENTENCES, Cardinality(Range(filtered_sentences)))
        /\ Cardinality(Range(ret)) = Len(ret)
        /\ Range(ret) \subseteq Range(filtered_sentences)

\* A duplicated sentence among the filtered ones and a tie at the cut-off:
\* the best sentence left out scores what the worst selected one scores.
C4_Witness ==
    /\ pc = "selected"
    /\ Len(filtered_sentences) > Cardinality(Range(filtered_sentences))
    /\ Len(ret) = NUM_SENTENCES
    /\ \E s \in Range(ret) : \E u \in Range(filtered_sentences) \ Range(ret) :
          DictGet(scores, s) = DictGet(scores, u) /\ DictGet(scores, s) > 0

\* C10 (as claimed): with frequency(w) = count(w) / len(filtered_words), the
\* sum over the distinct words of count(w) * frequency(w) is
\* len(filtered_words).  Both sides are multiplied by len(filtered_words).
C10_CountTimesFrequencySumsToLen ==
    (pc = "selected" /\ filtered_words # << >>) =>
        Sum([i \in 1..Len(filtered_words) |->
               IF \E j \in 1..(i - 1) : filtered_words[j] = filtered_words[i]
               THEN 0
               ELSE frequency_table[filtered_words[i]]
                        * frequency_table[filtered_words[i]]])
            = Len(filtered_words) * Len(filtered_words)

\* C10 (amended): the sum over the distinct words of frequency(w) is 1, that
\* is, the counts of the table sum to len(filtered_words), and the table
\* holds exactly the filtered words.
C10_FrequenciesSumToOne ==
    (pc = "selected" /\ filtered_words # << >>) =>
        /\ DOMAIN frequency_table = Range(filtered_words)
        /\ Sum([i \in 1..Len(filtered_words) |->
                  IF \E j \in 1..(i - 1) : filtered_words[j] = filtered_words[i]
                  THEN 0 ELSE frequency_table[filtered_words[i]]])
               = Len(filtered_words)

\* The words "fox", "fox", "dog": frequencies 2/3 and 1/3.
C10_Witness ==
    /\ pc = "selected"
    /\ Len(filtered_words) = 3
    /\ \E w, v \in DOMAIN frequency_table :
          frequency_table[w] = 2 /\ frequency_table[v] = 1

(***************************************************************************)
(* The lexical corrector, _correct_summary.  The dictionary oracle         *)
(* eng_dict.check is the table is_word: "yes", "no", or "raise" when the   *)
(* call fails.  The segmentation oracle wordninja.split is the table       *)
(* segment, from a token to its parts.  A token outside the tables is no   *)
(* word and is segmented into itself.                                      *)
(***************************************************************************)
FusedLength == 5

IsWord(token) == IF token \in DOMAIN is_word THEN is_word[token] ELSE "no"

Segment(token) ==
    IF token \in DOMAIN segment THEN segment[token] ELSE << token >>

\* all(eng_dict.check(w) for w in split_words): stops at the first w that
\* is no word, fails when a check before that fails.
RECURSIVE AllWords(_)
AllWords(parts) ==
    IF parts = << >> THEN "yes"
    ELSE LET c == IsWord(Head(parts))
         IN  IF c = "yes" THEN AllWords(Tail(parts)) ELSE c

Kept(word) == [raise |-> FALSE, out |-> << word >>]
Failed == [raise |-> TRUE, out |-> << >>]

\* The loop body without "not eng_dict.check(word)": a word of the
\* dictionary is split too.
CorrectWordAlsoWords(word) ==
    LET split_words == Segment(word)
    IN  IF ~ (Len(word) > FusedLength) THEN Kept(word)
        ELSE LET all_words == AllWords(split_words)
             IN  IF all_words = "raise" THEN Failed
                 ELSE IF all_words = "yes"
                      THEN [raise |-> FALSE, out |-> split_words]
                      ELSE Kept(word)

\* The body of "for word in words": what it adds to clean_summary, or that
\* an oracle call raised.  The condition is evaluated left to right and
\* stops at the first operand that is false.
CorrectWord(word) ==
    LET split_words == Segment(word)
    IN  IF ~ (Len(word) > FusedLength) THEN Kept(word)
        ELSE LET check == IsWord(word)
             IN  IF check = "raise" THEN Failed
                 ELSE IF check = "yes" THEN Kept(word)
                 ELSE LET all_words == AllWords(split_words)
                      IN  IF all_words = "raise" THEN Failed
                          ELSE IF all_words = "yes"
                               THEN [raise |-> FALSE, out |-> split_words]
                               ELSE Kept(word)

\* The loop: clean_summary, or that an oracle call raised on the way.
RECURSIVE CorrectWords(_, _)
CorrectWords(clean_summary, list) ==
    IF list = << >> THEN [raise |-> FALSE, out |-> clean_summary]
    ELSE LET r == CorrectWord(Head(list))
         IN  IF r.raise THEN Failed
             ELSE CorrectWords(clean_summary \o r.out, Tail(list))

\* " ".join(list)
RECURSIVE JoinBlank(_)
JoinBlank(list) ==
    IF list = << >> THEN ""
    ELSE IF Len(list) = 1 THEN Head(list)
    ELSE Head(list) \o " " \o JoinBlank(Tail(list))

\* re.sub("\s+", " ", s), the blank being the only white space here
RECURSIVE CollapseBlanks(_)
CollapseBlanks(s) ==
    IF Len(s) <= 1 THEN s
    ELSE IF Head(s) = " " /\ Head(Tail(s)) = " " THEN CollapseBlanks(Tail(s))
    ELSE Head(s) \o CollapseBlanks(Tail(s))

RECURSIVE LStrip(_)
LStrip(s) ==
    IF s = "" THEN "" ELSE IF Head(s) = " " THEN LStrip(Tail(s)) ELSE s

\* str.strip()
Strip(s) == LStrip(RStrip(s))

\* _correct_summary: the summary is tokenized, every token is corrected,
\* and the tokens are joined and normalised; an oracle call that raises is
\* not caught, it leaves _correct_summary (and summarize()) with
\* self.summary as it was.
CorrectSummary ==
    /\ pc \in {"assembled", "corrected"}
    /\ LET r == CorrectWords(<< >>, word_tokenize(summary))
       IN  IF r.raise
           THEN /\ raised' = "OracleError"
                /\ pc' = "raised"
                /\ UNCHANGED << summary, passes >>
           ELSE /\ summary' = Strip(CollapseBlanks(JoinBlank(r.out)))
                /\ passes' = Append(passes, summary)
                /\ pc' = IF pc = "assembled" THEN "corrected" ELSE "recorrected"
                /\ raised' = raised
    /\ UNCHANGED << text, CHUNK_SIZE, NUM_SENTENCES, chunks, calls, first_call >>
    /\ UNCHANGED << derivedVars, executorVars, oracleVars >>

OracleTokens == {"brown", "browns", "quickbrown"}

FusedTokens == {t \in OracleTokens : Len(t) > FusedLength}

\* What wordninja.split may answer: for a token longer than 5 characters
\* any list of tokens; for a shorter one, whose parts the corrector never
\* reads, the token itself.
SegmentOracles ==
    {[t \in OracleTokens |-> IF t \in FusedTokens THEN f[t] ELSE << t >>] :
        f \in [FusedTokens -> ListsUpTo(OracleTokens, MaxSegments)]}

\* Summaries as the condenser may assemble them, blanks included.
Summaries ==
    {"", "brown", "quickbrown.", "quickbrown brown", " browns  quickbrown "}

InitCorrect ==
    /\ is_word \in [OracleTokens -> {"yes", "no", "raise"}]
    /\ abstract = ""
    /\ segment \in SegmentOracles
    /\ summary \in Summaries
    /\ pc = "assembled"
    /\ raised = ""
    /\ text = "" /\ chunks = << >> /\ CHUNK_SIZE = ScaledCondenseChunkSize
    /\ NUM_SENTENCES = 0
    /\ NoDerivedState /\ NoExecutor /\ NoHistory

NextCorrect == CorrectSummary

SpecCorrect == InitCorrect /\ [][NextCorrect]_vars

\* C7 (as claimed): an oracle failure never aborts the corrector; it
\* completes with a summary.
C7_OracleFailureNeverAborts == raised # "OracleError"

NumThreads == 4

\* The call self.process_concurrently(list, num_threads=4, operation=op)
EnterProcessConcurrently(list, op, name) ==
    /\ tokens' = list
    /\ num_threads' = NumThreads
    /\ operation' = op
    /\ futures' = << >>
    /\ completed' = << >>
    /\ ret' = << >>
    /\ stage' = name
    /\ pc' = "submit"

\* summarize() is called, on a new instance or after an earlier call
\* returned, and calls process_concurrently on self.chunks (lines 95-98).
BeginSummarize ==
    /\ pc \in {"constructed", "corrected"}
    /\ calls < MaxCalls
    /\ calls' = calls + 1
    /\ EnterProcessConcurrently(chunks, "tokenize_sentences", "sentences")
    /\ UNCHANGED << text, CHUNK_SIZE, NUM_SENTENCES, chunks, summary, raised,
                    first_call, passes >>
    /\ UNCHANGED << derivedVars, oracleVars >>

\* self.sentences = ...; the call on self.sentences (lines 95, 99-102)
SentencesReturned ==
    /\ pc = "returned" /\ stage = "sentences"
    /\ sentences' = ret
    /\ EnterProcessConcurrently(sentences', "tokenize_words", "words")
    /\ UNCHANGED << text, CHUNK_SIZE, NUM_SENTENCES, chunks, summary, raised,
                    words, filtered_sentences, filtered_words,
                    frequency_table, scores, raw_summary_chunks >>
    /\ UNCHANGED << oracleVars, historyVars >>

\* self.words = ...; the call on self.sentences (lines 99, 104-107)
WordsReturned ==
    /\ pc = "returned" /\ stage = "words"
    /\ words' = ret
    /\ EnterProcessConcurrently(sentences, "filter_sentences", "filtered_sentences")
    /\ UNCHANGED << text, CHUNK_SIZE, NUM_SENTENCES, chunks, summary, raised,
                    sentences, filtered_sentences, filtered_words,
                    frequency_table, scores, raw_summary_chunks >>
    /\ UNCHANGED << oracleVars, historyVars >>

\* self.filtered_sentences = ...; the call on self.words (lines 104, 108-109)
FilteredSentencesReturned ==
    /\ pc = "returned" /\ stage = "filtered_sentences"
    /\ filtered_sentences' = ret
    /\ EnterProcessConcurrently(words, "filter_words", "filtered_words")
    /\ UNCHANGED << text, CHUNK_SIZE, NUM_SENTENCES, chunks, summary, raised,
                    sentences, words, filtered_words,
                    frequency_table, scores, raw_summary_chunks >>
    /\ UNCHANGED << oracleVars, historyVars >>

\* self.filtered_words = ... (line 108).  first_call keeps what the first
\* call derived.
FilteredWordsReturned ==
    /\ pc = "returned" /\ stage = "filtered_words"
    /\ filtered_words' = ret
    /\ stage' = ""
    /\ pc' = "filtered"
    /\ first_call' =
          IF calls = 1
          THEN [sentences |-> sentences, words |-> words,
                filtered_sentences |-> filtered_sentences,
                filtered_words |-> filtered_words']
          ELSE first_call
    /\ UNCHANGED << text, CHUNK_SIZE, NUM_SENTENCES, chunks, summary, raised,
                    sentences, words, filtered_sentences,
                    frequency_table, scores, raw_summary_chunks,
                    tokens, num_threads, operation, futures, completed, ret,
                    calls, passes >>
    /\ UNCHANGED oracleVars

\* self.summarizer(chunk, ...)[0]["summary_text"]: what the model may answer
\* for a chunk.  It samples (do_sample=True): "sample" is any of the
\* answers, "echo" and "head" are models that answer one way.
AbstractOutputs(mode, chunk) ==
    CASE mode = "echo" -> {chunk}
      [] mode = "head" -> {SubSeq(chunk, 1, 1)}
      [] mode = "sample" -> {chunk, SubSeq(chunk, 1, 1)}

\* executor.map(self._summarize_chunk, raw_summary_chunks): every chunk is
\* submitted before map returns (line 140).
MapSubmit ==
    /\ pc = "selected"
    /\ futures' = [k \in 1..Len(raw_summary_chunks) |->
                     [arg |-> raw_summary_chunks[k], state |-> "pending",
                      result |-> ""]]
    /\ completed' = << >>
    /\ ret' = << >>
    /\ pc' = "map"
    /\ UNCHANGED << text, CHUNK_SIZE, NUM_SENTENCES, chunks, summary, raised,
                    tokens, num_threads, operation, stage >>
    /\ UNCHANGED << derivedVars, oracleVars, historyVars >>

Running(futs) == {i \in 1..Len(futs) : futs[i].state = "running"}

\* A free worker of the pool takes the oldest queued call.
StartTask ==
    /\ pc = "map"
    /\ Cardinality(Running(futures)) < MaxPoolWorkers
    /\ \E i \in 1..Len(futures) :
          /\ futures[i].state = "pending"
          /\ \A j \in 1..(i - 1) : futures[j].state # "pending"
          /\ futures' = [futures EXCEPT ![i].state = "running"]
    /\ UNCHANGED << text, CHUNK_SIZE, NUM_SENTENCES, chunks, summary, raised,
                    tokens, num_threads, operation, completed, ret, pc, stage >>
    /\ UNCHANGED << derivedVars, oracleVars, historyVars >>

\* _summarize_chunk returns in its worker: the future is done.
FinishTask(i) ==
    /\ pc = "map"
    /\ i \in 1..Len(futures)
    /\ futures[i].state = "running"
    /\ \E out \in AbstractOutputs(abstract, futures[i].arg) :
          futures' = [futures EXCEPT ![i].state = "done", ![i].result = out]
    /\ completed' = Append(completed, i)
    /\ UNCHANGED << text, CHUNK_SIZE, NUM_SENTENCES, chunks, summary, raised,
                    tokens, num_threads, operation, ret, pc, stage >>
    /\ UNCHANGED << derivedVars, oracleVars, historyVars >>

\* list(...) over the iterator of map takes one result, blocking until
\* that future is done (line 139).
MapCollect ==
    /\ pc = "map"
    /\ LET i == NextFuture(futures, completed)
       IN  /\ i # 0
           /\ futures[i].state = "done"
           /\ ret' = Append(ret, futures[i].result)
           /\ futures' = [futures EXCEPT ![i].state = "collected"]
    /\ UNCHANGED << text, CHUNK_SIZE, NUM_SENTENCES, chunks, summary, raised,
                    tokens, num_threads, operation, completed, pc, stage >>
    /\ UNCHANGED << derivedVars, oracleVars, historyVars >>

\* self.summary = "".join(futures), once list(...) has every result (line 141)
Assemble ==
    /\ pc = "map"
    /\ \A i \in 1..Len(futures) : futures[i].state = "collected"
    /\ summary' = Join(ret)
    /\ pc' = "assembled"
    /\ UNCHANGED << text, CHUNK_SIZE, NUM_SENTENCES, chunks, raised >>
    /\ UNCHANGED << derivedVars, executorVars, oracleVars, historyVars >>

\* self._correct_summary() as summarize() calls it (line 142)
CorrectAssembledSummary == pc = "assembled" /\ CorrectSummary

\* The condensing pass alone, from every selection of sentences: lines
\* 138-142, the model sampling its answers.
SelectedPool == {"ab.", "c."}

InitCondense ==
    /\ ret \in ListsUpTo(SelectedPool, MaxNumSentences)
    /\ CHUNK_SIZE = ScaledCondenseChunkSize
    /\ raw_summary_chunks = split_text(Join(ret), CHUNK_SIZE)
    /\ abstract \in {"echo", "head", "sample"}
    /\ is_word = [t \in {"fox", "dog"} |-> "yes"]
    /\ segment = << >>
    /\ pc = "selected"
    /\ raised = ""
    /\ summary = ""
    /\ text = "" /\ chunks = << >> /\ NUM_SENTENCES = MaxNumSentences
    /\ sentences = << >> /\ words = << >>
    /\ filtered_sentences = << >> /\ filtered_words = << >>
    /\ frequency_table = << >> /\ scores = << >>
    /\ tokens = << >> /\ num_threads = 0 /\ operation = ""
    /\ futures = << >> /\ completed = << >> /\ stage = ""
    /\ NoHistory

NextCondense ==
    \/ MapSubmit
    \/ StartTask
    \/ \E i \in 1..Len(futures) : FinishTask(i)
    \/ MapCollect
    \/ Assemble
    \/ CorrectAssembledSummary

SpecCondense == InitCondense /\ [][NextCondense]_vars

\* C5: whatever order the per-chunk abstract calls complete in, the
\* assembled summary is the concatenation of their outputs in chunk order,
\* one call per chunk of the selected text, and it is assembled only after
\* every call has completed.
C5_SummaryInChunkOrder ==
    pc = "assembled" =>
        /\ Len(futures) = Len(raw_summary_chunks)
        /\ \A i \in 1..Len(futures) :
              /\ futures[i].state \in {"done", "collected"}
              /\ futures[i].arg = raw_summary_chunks[i]
        /\ Len(completed) = Len(futures)
        /\ summary = Join([i \in 1..Len(futures) |-> futures[i].result])

\* A summary assembled from calls that completed out of chunk order and
\* answered differently.
C5_Witness ==
    /\ pc = "assembled"
    /\ Len(futures) >= 3
    /\ completed[1] = 2
    /\ futures[1].result # futures[2].result
    /\ summary # ""

TextSentences == {"fox dog. ", "Fig one. ", "the fox. "}

\* A constructed instance (__init__ has split the text) with collaborators
\* that answer the same way every time: a model that echoes its chunk or
\* one that keeps its first character, and a dictionary of two words.
InitSummarize ==
    /\ text \in {Join(l) : l \in ListsUpTo(TextSentences, MaxTextSentences)}
    /\ CHUNK_SIZE = ScaledInitialChunkSize
    /\ chunks = split_text(text, CHUNK_SIZE)
    /\ summary = ""
    /\ NUM_SENTENCES \in 1..MaxNumSentences
    /\ abstract \in {"echo", "head"}
    /\ is_word = [t \in {"fox", "dog"} |-> "yes"]
    /\ segment = << >>
    /\ pc = "constructed"
    /\ raised = ""
    /\ calls = 0
    /\ first_call = [sentences |-> << >>, words |-> << >>,
                     filtered_sentences |-> << >>, filtered_words |-> << >>]
    /\ passes = << >>
    /\ NoDerivedState /\ NoExecutor

NextSummarize ==
    \/ BeginSummarize
    \/ Submit
    \/ \E i \in 1..NumThreads : Run(i)
    \/ Collect
    \/ SentencesReturned
    \/ WordsReturned
    \/ FilteredSentencesReturned
    \/ FilteredWordsReturned
    \/ ScoreAndSelect
    \/ MapSubmit
    \/ StartTask
    \/ \E i \in 1..Len(futures) : FinishTask(i)
    \/ MapCollect
    \/ Assemble
    \/ CorrectAssembledSummary

SpecSummarize == InitSummarize /\ [][NextSummarize]_vars

\* C9 (as claimed): every summarize() call on an instance derives what the
\* first call derived: the same sentences, words, filtered sentences and
\* filtered words.
C9_EveryCallAsTheFirst ==
    (calls > 1 /\ pc = "filtered") =>
        /\ sentences = first_call.sentences
        /\ words = first_call.words
        /\ filtered_sentences = first_call.filtered_sentences
        /\ filtered_words = first_call.filtered_words

====
